---- MODULE Spec2Model ----
(***************************************************************************)
(* A model of the key/value server of src/src/main.rs: the write-ahead log *)
(* kvstore.log (replay_log, compact_log, write_to_log), the connection     *)
(* workers (handle_client, parse_command) and the coordinator (main).      *)
(*                                                                         *)
(* Files are sequences of tokens.  serde_json::to_string(&Command) is the  *)
(* token sequence <<"{", verb, key, (value,) "}">>; a line of the file is  *)
(* what lies between two "LF" tokens, and serde_json::from_str accepts a   *)
(* line only when it is exactly one such sequence.  One write_all call     *)
(* appends its tokens in one step (O_APPEND); the newline is a second      *)
(* write_all call, so other threads' writes can land between the two.      *)
(***************************************************************************)
EXTENDS Integers, Sequences, FiniteSets, TLC

\* ---------------------------------------------------------------- bounds
Workers == {"w1", "w2"}        \* connection slots (one thread each)
Keys == {"a", "b"}
Vals == {"x", "y"}
MaxMutations == 2              \* SET and DELETE lines dispatched in one behaviour
MaxInitLines == 3              \* lines of the log found on disk at start
MaxCrashes == 1                \* kills of the process in one behaviour

\* ------------------------------------------------------- Command (enum)
Absent == "<absent>"           \* HashMap::get == None
NoText == ""

SetCmd(k, v) == [op |-> "SET", key |-> k, value |-> v]
GetCmd(k) == [op |-> "GET", key |-> k, value |-> NoText]
DeleteCmd(k) == [op |-> "DELETE", key |-> k, value |-> NoText]
\* Result::Err of parse_command (the message) and of serde_json::from_str
ErrCmd(msg) == [op |-> "ERR", key |-> msg, value |-> NoText]
NoCmd == [op |-> "NONE", key |-> NoText, value |-> NoText]

Mutating(c) == c.op \in {"SET", "DELETE"}

\* ------------------------------------------------------ serialization
LF == "LF"
BadUtf8 == "0xFF"              \* a byte sequence that is not UTF-8
Garbage == "#"                 \* UTF-8 text that is no JSON
Structural == {"{", "}", LF, BadUtf8, Garbage, "SET", "GET", "DELETE"}

\* serde_json::to_string(&Command)
Serialize(c) ==
    IF c.op = "SET" THEN <<"{", "SET", c.key, c.value, "}">>
    ELSE <<"{", c.op, c.key, "}">>

\* serde_json::from_str::<Command>(&line)
Deserialize(line) ==
    IF /\ Len(line) = 5
       /\ line[1] = "{" /\ line[2] = "SET" /\ line[5] = "}"
       /\ line[3] \notin Structural /\ line[4] \notin Structural
    THEN SetCmd(line[3], line[4])
    ELSE IF /\ Len(line) = 4
            /\ line[1] = "{" /\ line[2] \in {"GET", "DELETE"} /\ line[4] = "}"
            /\ line[3] \notin Structural
    THEN [op |-> line[2], key |-> line[3], value |-> NoText]
    ELSE ErrCmd("corrupted")

\* BufRead::lines(): split at LF; a last line without LF is a line too
RECURSIVE SplitLines(_, _, _)
SplitLines(f, i, cur) ==
    IF i > Len(f) THEN (IF cur = <<>> THEN <<>> ELSE <<cur>>)
    ELSE IF f[i] = LF THEN <<cur>> \o SplitLines(f, i + 1, <<>>)
    ELSE SplitLines(f, i + 1, Append(cur, f[i]))

Lines(f) == SplitLines(f, 1, <<>>)

\* the io::Error of lines() on a line that is not UTF-8 (`let line = line?`)
ValidUtf8(line) == \A i \in 1..Len(line) : line[i] # BadUtf8

EmptyMap == [k \in Keys |-> Absent]

\* the match of replay_log: insert, remove, or nothing
ApplyCmd_Overwrite(map, c) ==
    IF c.op = "SET" /\ c.key \in Keys THEN [EmptyMap EXCEPT ![c.key] = c.value]
    ELSE IF c.op = "DELETE" /\ c.key \in Keys THEN [map EXCEPT ![c.key] = Absent]
    ELSE map

ApplyCmd(map, c) ==
    IF c.op = "SET" /\ c.key \in Keys THEN [map EXCEPT ![c.key] = c.value]
    ELSE IF c.op = "DELETE" /\ c.key \in Keys THEN [map EXCEPT ![c.key] = Absent]
    ELSE map

\* the for loop of replay_log over the lines of the file
RECURSIVE ReplayLines(_, _)
ReplayLines(lines, map) ==
    IF lines = <<>> THEN [ok |-> TRUE, map |-> map]
    ELSE LET line == Head(lines) IN
         IF ~ValidUtf8(line) THEN [ok |-> FALSE, map |-> map]
         ELSE LET c == Deserialize(line) IN
              ReplayLines(Tail(lines), IF c.op = "ERR" THEN map ELSE ApplyCmd(map, c))

\* replay_log(): a missing file is the empty map
ReplayLog(exists, f) ==
    IF ~exists THEN [ok |-> TRUE, map |-> EmptyMap]
    ELSE ReplayLines(Lines(f), EmptyMap)

\* ------------------------------------------------------ parse_command
ToUpper(w) ==
    CASE w = "set" -> "SET"
      [] w = "get" -> "GET"
      [] w = "delete" -> "DELETE"
      [] OTHER -> w

\* parse_command(input), on input.split_whitespace()
ParseCommand(parts) ==
    IF parts = <<>> THEN ErrCmd("ERROR: Empty command")
    ELSE LET cmd == ToUpper(parts[1])
             n == Len(parts)
         IN CASE cmd = "SET" /\ n = 3 -> SetCmd(parts[2], parts[3])
              [] cmd = "SET" /\ n # 3 -> ErrCmd("ERROR: SET requires a key and value")
              [] cmd = "GET" /\ n = 2 -> GetCmd(parts[2])
              [] cmd = "GET" /\ n # 2 -> ErrCmd("ERROR: GET requires a key")
              [] cmd = "DELETE" /\ n = 2 -> DeleteCmd(parts[2])
              [] cmd = "DELETE" /\ n # 2 -> ErrCmd("ERROR: DELETE requires a key")
              [] OTHER -> ErrCmd("ERROR: Unknown command")

\* ============================================================== state
VARIABLES
    log, logExists,       \* kvstore.log: its tokens, and whether the file exists
    tmp, tmpExists,       \* kvstore.log.tmp
    mainPc,               \* where main() is
    store,                \* the HashMap behind Arc<Mutex<..>> (restored_map before that)
    cmap, todo,           \* compact_log: its argument, and the keys not yet written
    compactions,          \* calls of compact_log made by this process
    shutdown,             \* the AtomicBool
    handles,              \* Vec<JoinHandle>, in spawn order
    lockedBy,             \* who holds the Mutex of the database between two steps
    wpc, wcmd, wbuf, wresp,   \* per connection: position in handle_client, the
                              \* command, what read_line holds, the response
    stage,                \* history: the steps done for the worker's current command
    lastLogged, acked,    \* history, per key: the last entry appended for it, and
                          \* whether that command has been answered OK
    origLog,              \* history: kvstore.log when the running compact_log began
    late,                 \* history: the connections made after the flag was set
                          \* whose thread has not ended
    nmut,                 \* SET and DELETE lines dispatched so far
    crashes               \* kills of the process so far

disk == <<log, logExists, tmp, tmpExists>>
coord == <<mainPc, store, cmap, todo, compactions, handles, lockedBy>>
conn == <<wpc, wcmd, wbuf, wresp, stage>>
hist == <<lastLogged, acked, origLog, late>>
budget == <<nmut, crashes>>
vars == <<disk, coord, shutdown, conn, hist, budget>>

Terminal == {"ClosedByPeer", "ClosedByError", "ClosedByShutdown", "Failed"}
\* main has panicked in an expect(): where
Aborted == {"abort_bind", "abort_replay", "abort_compact", "abort_handler"}
NoEntry == [eff |-> Absent, by |-> "none"]

\* everything but the disk: the state of a process that has just started
FreshProcess ==
    /\ mainPc = "bind"
    /\ store = EmptyMap
    /\ cmap = EmptyMap
    /\ todo = {}
    /\ compactions = 0
    /\ shutdown = FALSE
    /\ handles = <<>>
    /\ lockedBy = "none"
    /\ wpc = [w \in Workers |-> "idle"]
    /\ wcmd = [w \in Workers |-> NoCmd]
    /\ wbuf = [w \in Workers |-> <<>>]
    /\ wresp = [w \in Workers |-> NoText]
    /\ stage = [w \in Workers |-> <<>>]

NoHistory ==
    /\ lastLogged = [k \in Keys |-> NoEntry]
    /\ acked = [k \in Keys |-> FALSE]
    /\ origLog = <<>>
    /\ late = {}
    /\ nmut = 0
    /\ crashes = 0

\* a first start: no log file yet, or an empty one
Init ==
    /\ log = <<>> /\ logExists \in BOOLEAN
    /\ tmp = <<>> /\ tmpExists = FALSE
    /\ FreshProcess
    /\ NoHistory

\* ------------------------------------------------------------ recovery
\* TcpListener::bind and set_nonblocking
Bind ==
    /\ mainPc = "bind"
    /\ mainPc' = "replay"
    /\ UNCHANGED <<disk, store, cmap, todo, compactions, handles, lockedBy, shutdown, conn,
                   hist, budget>>

BindFail ==
    /\ mainPc = "bind"
    /\ mainPc' = "abort_bind"
    /\ UNCHANGED <<disk, store, cmap, todo, compactions, handles, lockedBy, shutdown, conn,
                   hist, budget>>

\* let restored_map = replay_log().expect(..)
Replay ==
    /\ mainPc = "replay"
    /\ LET r == ReplayLog(logExists, log) IN
         IF r.ok THEN /\ store' = r.map
                      /\ cmap' = r.map
                      /\ mainPc' = "c_create"
         ELSE /\ mainPc' = "abort_replay"
              /\ UNCHANGED <<store, cmap>>
    /\ UNCHANGED <<disk, todo, compactions, handles, lockedBy, shutdown, conn, hist, budget>>

\* File::open fails with something other than NotFound, or a read fails
ReplayIoFail ==
    /\ mainPc = "replay"
    /\ logExists
    /\ mainPc' = "abort_replay"
    /\ UNCHANGED <<disk, store, cmap, todo, compactions, handles, lockedBy, shutdown, conn,
                   hist, budget>>

\* ---------------------------------------------------------- compact_log
LiveKeys(map) == {k \in Keys : map[k] # Absent}

\* what compact_log writes for one key of the map
CompactEntry_KeyAsValue(map, k) == Serialize(SetCmd(k, k))

CompactEntry(map, k) == Serialize(SetCmd(k, map[k]))

\* File::create("kvstore.log.tmp")
CompactCreate ==
    /\ mainPc = "c_create"
    /\ tmp' = <<>> /\ tmpExists' = TRUE
    /\ todo' = LiveKeys(cmap)
    /\ compactions' = compactions + 1
    /\ origLog' = log
    /\ mainPc' = "c_write"
    /\ UNCHANGED <<log, logExists, store, cmap, handles, lockedBy, shutdown, conn,
                   lastLogged, acked, late, budget>>

\* temp.write_all(json.as_bytes()), for the next key of the HashMap's iteration
CompactWriteJson ==
    /\ mainPc = "c_write"
    /\ \E k \in todo :
         /\ tmp' = tmp \o CompactEntry(cmap, k)
         /\ todo' = todo \ {k}
    /\ mainPc' = "c_nl"
    /\ UNCHANGED <<log, logExists, tmpExists, store, cmap, compactions, handles,
                   lockedBy, shutdown, conn, hist, budget>>

\* temp.write_all(b"\n")
CompactWriteNl ==
    /\ mainPc = "c_nl"
    /\ tmp' = Append(tmp, LF)
    /\ mainPc' = "c_write"
    /\ UNCHANGED <<log, logExists, tmpExists, store, cmap, todo, compactions, handles,
                   lockedBy, shutdown, conn, hist, budget>>

\* temp.sync_all()
CompactSync ==
    /\ mainPc = "c_write"
    /\ todo = {}
    /\ mainPc' = "c_rename"
    /\ UNCHANGED <<disk, store, cmap, todo, compactions, handles, lockedBy, shutdown, conn,
                   hist, budget>>

\* std::fs::rename("kvstore.log.tmp", "kvstore.log")
CompactRename ==
    /\ mainPc = "c_rename"
    /\ log' = tmp /\ logExists' = TRUE
    /\ tmp' = <<>> /\ tmpExists' = FALSE
    /\ mainPc' = "compacted"
    /\ UNCHANGED <<store, cmap, todo, compactions, handles, lockedBy, shutdown, conn,
                   hist, budget>>

\* any `?` of compact_log, and the expect() around the call: the panic
\* unwinds main and drops the guard, if main holds one
CompactFail ==
    /\ mainPc \in {"c_create", "c_write", "c_nl", "c_rename"}
    /\ mainPc' = "abort_compact"
    /\ lockedBy' = "none"
    /\ UNCHANGED <<disk, store, cmap, todo, compactions, handles, shutdown, conn,
                   hist, budget>>

\* the process is killed and started again: the files stay, the memory is lost
Restart ==
    /\ crashes < MaxCrashes
    /\ mainPc # "bind"
    /\ crashes' = crashes + 1
    /\ mainPc' = "bind"
    /\ store' = EmptyMap /\ cmap' = EmptyMap /\ todo' = {}
    /\ compactions' = 0 /\ shutdown' = FALSE /\ handles' = <<>>
    /\ lockedBy' = "none"
    /\ wpc' = [w \in Workers |-> "idle"]
    /\ wcmd' = [w \in Workers |-> NoCmd]
    /\ wbuf' = [w \in Workers |-> <<>>]
    /\ wresp' = [w \in Workers |-> NoText]
    /\ stage' = [w \in Workers |-> <<>>]
    /\ lastLogged' = [k \in Keys |-> [lastLogged[k] EXCEPT !.by = "none"]]
    /\ late' = {}
    /\ UNCHANGED <<disk, acked, origLog, nmut>>

\* ------------------------------------------------------ main: serving
\* where main is when it goes on to serve: compact_log(&restored_map) has returned
StartupDone_AfterReplay == mainPc = "c_create" /\ compactions = 0

StartupDone == mainPc = "compacted" /\ compactions = 1

\* ctrlc::set_handler(..).expect(..), after the startup compaction
InstallHandler ==
    /\ StartupDone
    /\ mainPc' = "accept_check"
    /\ UNCHANGED <<disk, store, cmap, todo, compactions, handles, lockedBy, shutdown, conn,
                   hist, budget>>

InstallHandlerFail ==
    /\ StartupDone
    /\ mainPc' = "abort_handler"
    /\ UNCHANGED <<disk, store, cmap, todo, compactions, handles, lockedBy, shutdown, conn,
                   hist, budget>>

\* the signal handler: shutdown_clone.store(true)
SetShutdown ==
    /\ mainPc \in {"accept_check", "accept"}
    /\ ~shutdown
    /\ shutdown' = TRUE
    /\ UNCHANGED <<disk, coord, conn, hist, budget>>

\* a client connects: the connection waits in the listener's queue
Connect(w) ==
    /\ wpc[w] = "idle"
    /\ mainPc \notin {"bind", "done"} \cup Aborted
    /\ wpc' = [wpc EXCEPT ![w] = "pending"]
    /\ late' = IF shutdown THEN late \cup {w} ELSE late
    /\ UNCHANGED <<disk, coord, shutdown, wcmd, wbuf, wresp, stage,
                   lastLogged, acked, origLog, budget>>

\* if shutdown.load() { break } at the head of the accept loop
AcceptCheck ==
    /\ mainPc = "accept_check"
    /\ mainPc' = IF shutdown THEN "join" ELSE "accept"
    /\ UNCHANGED <<disk, store, cmap, todo, compactions, handles, lockedBy, shutdown, conn,
                   hist, budget>>

\* listener.accept() == Ok(..): thread::spawn and handles.push
Accept(w) ==
    /\ mainPc = "accept"
    /\ wpc[w] = "pending"
    /\ wpc' = [wpc EXCEPT ![w] = "spawned"]
    /\ handles' = Append(handles, w)
    /\ mainPc' = "accept_check"
    /\ UNCHANGED <<disk, store, cmap, todo, compactions, lockedBy, shutdown,
                   wcmd, wbuf, wresp, stage, hist, budget>>

\* listener.accept() == Err(WouldBlock): sleep 100 ms, continue
AcceptWouldBlock ==
    /\ mainPc = "accept"
    /\ \A w \in Workers : wpc[w] # "pending"
    /\ mainPc' = "accept_check"
    /\ UNCHANGED <<disk, store, cmap, todo, compactions, handles, lockedBy, shutdown, conn,
                   hist, budget>>

\* listener.accept() == Err(e): eprintln, next iteration
AcceptError ==
    /\ mainPc = "accept"
    /\ mainPc' = "accept_check"
    /\ UNCHANGED <<disk, store, cmap, todo, compactions, handles, lockedBy, shutdown, conn,
                   hist, budget>>

\* handle.join() returns once that worker's thread has ended
JoinWorker ==
    /\ mainPc = "join"
    /\ handles # <<>>
    /\ wpc[Head(handles)] \in Terminal
    /\ handles' = Tail(handles)
    /\ UNCHANGED <<disk, mainPc, store, cmap, todo, compactions, lockedBy, shutdown, conn,
                   hist, budget>>

\* the for loop over handles has ended
AllJoined_NoWait == TRUE

AllJoined == handles = <<>>

\* the map the final compact_log is given: the database, under its lock
FinalSnapshot_Restored == cmap

FinalSnapshot == store

\* let final_map = database.lock().unwrap(); compact_log(&final_map) begins:
\* final_map, the guard, lives until main returns
FinalLock ==
    /\ mainPc = "join"
    /\ AllJoined
    /\ lockedBy = "none"
    /\ lockedBy' = "main"
    /\ cmap' = FinalSnapshot
    /\ mainPc' = "c_create"
    /\ UNCHANGED <<disk, store, todo, compactions, handles, shutdown, conn,
                   hist, budget>>

\* "Server shutdown complete": main returns, final_map is dropped
Exit ==
    /\ mainPc = "compacted" /\ compactions = 2
    /\ mainPc' = "done"
    /\ lockedBy' = "none"
    /\ UNCHANGED <<disk, store, cmap, todo, compactions, handles, shutdown, conn,
                   hist, budget>>

\* ------------------------------------------------------- handle_client
IsPrefix(p, s) == Len(p) <= Len(s) /\ SubSeq(s, 1, Len(p)) = p

\* the lines a client sends, as split_whitespace sees them
InputLines ==
    { <<"SET", "a", "x">>, <<"SET", "a", "y">>, <<"SET", "b", "y">>,
      <<"set", "a", "x">>, <<"DELETE", "a">>, <<"DELETE", "b">>, <<"GET", "a">>,
      <<>>, <<"SET", "a">>, <<"FOO", "a", "a", "a">> }

\* the starts of a line that reach the worker before the rest of it
PartialInputs == {<<"SET", "a">>}

\* the thread ends: its locals are dropped
End(w, how) ==
    /\ wpc' = [wpc EXCEPT ![w] = how]
    /\ wcmd' = [wcmd EXCEPT ![w] = NoCmd]
    /\ wresp' = [wresp EXCEPT ![w] = NoText]
    /\ wbuf' = [wbuf EXCEPT ![w] = <<>>]
    /\ stage' = [stage EXCEPT ![w] = <<>>]

\* stream.try_clone() and set_read_timeout() succeed
Setup(w) ==
    /\ wpc[w] = "spawned"
    /\ wpc' = [wpc EXCEPT ![w] = "check"]
    /\ UNCHANGED <<disk, coord, shutdown, wcmd, wbuf, wresp, stage, hist, budget>>

\* one of them fails: handle_client returns the error
SetupFail(w) ==
    /\ wpc[w] = "spawned"
    /\ End(w, "Failed")
    /\ late' = late \ {w}
    /\ UNCHANGED <<disk, coord, shutdown, lastLogged, acked, origLog, budget>>

\* if shutdown.load() { break } at the head of the worker's loop
LoopHeadPc_ReadFirst(flag) == "read"

LoopHeadPc(flag) == IF flag THEN "ClosedByShutdown" ELSE "read"

\* head of the loop: the flag, then a new buffer
CheckShutdown(w) ==
    /\ wpc[w] = "check"
    /\ wpc' = [wpc EXCEPT ![w] = LoopHeadPc(shutdown)]
    /\ wbuf' = [wbuf EXCEPT ![w] = <<>>]
    /\ late' = IF shutdown THEN late \ {w} ELSE late
    /\ UNCHANGED <<disk, coord, shutdown, wcmd, wresp, stage,
                   lastLogged, acked, origLog, budget>>

\* bytes of the client reach the socket while read_line waits for them
ClientSend(w) ==
    /\ wpc[w] = "read"
    /\ wpc' = [wpc EXCEPT ![w] = "readable"]
    /\ UNCHANGED <<disk, coord, shutdown, wcmd, wbuf, wresp, stage, hist, budget>>

\* where the match on the parsed line goes
DispatchPc_ApplyFirst(c) ==
    CASE Mutating(c) -> "apply"
      [] c.op = "GET" -> "get"
      [] OTHER -> "respond"

DispatchPc_LogAll(c) ==
    CASE c.op \in {"SET", "GET", "DELETE"} -> "log_json"
      [] OTHER -> "respond"

DispatchPc(c) ==
    CASE Mutating(c) -> "log_json"
      [] c.op = "GET" -> "get"
      [] OTHER -> "respond"

\* Ok(_bytes_read): parse_command(&buffer) and the match on it
Dispatch(w, line) ==
    LET c == ParseCommand(line) IN
    /\ wcmd' = [wcmd EXCEPT ![w] = c]
    /\ wresp' = [wresp EXCEPT ![w] = IF c.op = "ERR" THEN c.key ELSE NoText]
    /\ wpc' = [wpc EXCEPT ![w] = DispatchPc(c)]
    /\ wbuf' = [wbuf EXCEPT ![w] = <<>>]
    /\ stage' = [stage EXCEPT ![w] = <<>>]
    /\ Mutating(c) => nmut < MaxMutations
    /\ nmut' = IF Mutating(c) THEN nmut + 1 ELSE nmut

\* read_line: the bytes so far hold no newline; it keeps them and reads on
\* (p = wbuf[w]: the bytes add no word)
ReadPartial(w) ==
    /\ wpc[w] = "readable"
    /\ \E p \in PartialInputs \cup {wbuf[w]} :
         /\ IsPrefix(wbuf[w], p)
         /\ wbuf' = [wbuf EXCEPT ![w] = p]
    /\ wpc' = [wpc EXCEPT ![w] = "read"]
    /\ UNCHANGED <<disk, coord, shutdown, wcmd, wresp, stage, hist, budget>>

\* read_line returns a whole line
ReadLine(w) ==
    /\ wpc[w] = "readable"
    /\ \E l \in InputLines :
         /\ IsPrefix(wbuf[w], l)
         /\ Dispatch(w, l)
    /\ UNCHANGED <<disk, coord, shutdown, hist, crashes>>

\* Ok(0): the client has closed (it closes between two lines)
ReadEof(w) ==
    /\ wpc[w] = "read"
    /\ wbuf[w] = <<>>
    /\ End(w, "ClosedByPeer")
    /\ UNCHANGED <<disk, coord, shutdown, hist, budget>>

\* Err(WouldBlock | TimedOut): continue; what read_line had read is dropped
ReadTimeout(w) ==
    /\ wpc[w] = "read"
    /\ wpc' = [wpc EXCEPT ![w] = "check"]
    /\ wbuf' = [wbuf EXCEPT ![w] = <<>>]
    /\ UNCHANGED <<disk, coord, shutdown, wcmd, wresp, stage, hist, budget>>

\* Err(_) => break
ReadError(w) ==
    /\ wpc[w] = "read"
    /\ End(w, "ClosedByError")
    /\ UNCHANGED <<disk, coord, shutdown, hist, budget>>

\* -------------------------------------------------------- write_to_log
Effect(c) == IF c.op = "SET" THEN c.value ELSE Absent

\* how many bytes of the entry a failed write_all has written: none, or all
\* but the end (any proper prefix is as unparseable as this one)
TornLengths(json) == {0, Len(json) - 1}

\* where a worker goes when write_to_log returns Err: the `?` leaves handle_client
LogFailPc_Ignored == "apply"

LogFailPc == "Failed"

\* after a failed write_to_log
LogFailed(w) ==
    IF LogFailPc \in Terminal THEN End(w, LogFailPc)
    ELSE /\ wpc' = [wpc EXCEPT ![w] = LogFailPc]
         /\ UNCHANGED <<wcmd, wresp, wbuf, stage>>

\* open(create, append) and file.write_all(json.as_bytes())
LogWriteJson(w) ==
    /\ wpc[w] = "log_json"
    /\ log' = log \o Serialize(wcmd[w]) /\ logExists' = TRUE
    /\ lastLogged' = [lastLogged EXCEPT ![wcmd[w].key] = [eff |-> Effect(wcmd[w]), by |-> w]]
    /\ acked' = [acked EXCEPT ![wcmd[w].key] = FALSE]
    /\ wpc' = [wpc EXCEPT ![w] = "log_nl"]
    /\ UNCHANGED <<tmp, tmpExists, coord, shutdown, wcmd, wbuf, wresp, stage,
                   origLog, late, budget>>

\* the open fails, or the write fails after writing none or some of the bytes
LogWriteJsonFail(w) ==
    /\ wpc[w] = "log_json"
    /\ \E n \in TornLengths(Serialize(wcmd[w])) :
         log' = log \o SubSeq(Serialize(wcmd[w]), 1, n)
    /\ LogFailed(w)
    /\ UNCHANGED <<logExists, tmp, tmpExists, coord, shutdown, hist, budget>>

\* file.write_all(b"\n") and file.sync_all(): write_to_log returns Ok
LogWriteNl(w) ==
    /\ wpc[w] = "log_nl"
    /\ log' = Append(log, LF)
    /\ stage' = [stage EXCEPT ![w] = Append(@, "log")]
    /\ wpc' = [wpc EXCEPT ![w] = "apply"]
    /\ UNCHANGED <<logExists, tmp, tmpExists, coord, shutdown, wcmd, wbuf, wresp,
                   hist, budget>>

\* the newline is not written, or it is and sync_all fails
LogWriteNlFail(w) ==
    /\ wpc[w] = "log_nl"
    /\ \/ log' = log
       \/ log' = Append(log, LF)
    /\ LogFailed(w)
    /\ UNCHANGED <<logExists, tmp, tmpExists, coord, shutdown, hist, budget>>

\* ------------------------------------------- the Store, under its lock
\* DELETE: match map.remove(&key) { Some(_) => "OK", None => "(nil)" }
RemoveResponse_AlwaysOk(old) == "OK"

RemoveResponse(old) == IF old = Absent THEN "(nil)" ELSE "OK"

\* GET: match map.get(&key) { Some(value) => value, None => "(nil)" }
GetResponse(old) == IF old = Absent THEN "(nil)" ELSE old

\* SET: map.insert; DELETE: map.remove, and the response chosen from its result
Apply(w) ==
    /\ wpc[w] = "apply"
    /\ lockedBy = "none"
    /\ store' = ApplyCmd(store, wcmd[w])
    /\ wresp' = [wresp EXCEPT ![w] =
                   IF wcmd[w].op = "DELETE"
                   THEN RemoveResponse(store[wcmd[w].key]) ELSE "OK"]
    /\ stage' = [stage EXCEPT ![w] = Append(@, "apply")]
    /\ wpc' = [wpc EXCEPT ![w] = "respond"]
    /\ UNCHANGED <<disk, mainPc, cmap, todo, compactions, handles, lockedBy, shutdown,
                   wcmd, wbuf, hist, budget>>

\* GET: map.get, and the response made from it
Get(w) ==
    /\ wpc[w] = "get"
    /\ lockedBy = "none"
    /\ wresp' = [wresp EXCEPT ![w] = GetResponse(store[wcmd[w].key])]
    /\ wpc' = [wpc EXCEPT ![w] = "respond"]
    /\ UNCHANGED <<disk, coord, shutdown, wcmd, wbuf, stage, hist, budget>>

\* stream_clone.write_all(response) and flush(); the arm's locals are dropped
Respond(w) ==
    /\ wpc[w] = "respond"
    /\ acked' = IF /\ Mutating(wcmd[w]) /\ wresp[w] = "OK"
                   /\ lastLogged[wcmd[w].key].by = w
                THEN [acked EXCEPT ![wcmd[w].key] = TRUE]
                ELSE acked
    /\ wpc' = [wpc EXCEPT ![w] = "check"]
    /\ wcmd' = [wcmd EXCEPT ![w] = NoCmd]
    /\ wresp' = [wresp EXCEPT ![w] = NoText]
    /\ stage' = [stage EXCEPT ![w] = <<>>]
    /\ UNCHANGED <<disk, coord, shutdown, wbuf, lastLogged, origLog, late, budget>>

\* the write fails: the `?` leaves handle_client
RespondFail(w) ==
    /\ wpc[w] = "respond"
    /\ End(w, "Failed")
    /\ UNCHANGED <<disk, coord, shutdown, hist, budget>>

\* ------------------------------------------------------------- system
WorkerStep(w) ==
    \/ Setup(w) \/ SetupFail(w) \/ CheckShutdown(w)
    \/ ReadPartial(w) \/ ReadLine(w) \/ ReadEof(w) \/ ReadTimeout(w) \/ ReadError(w)
    \/ LogWriteJson(w) \/ LogWriteJsonFail(w) \/ LogWriteNl(w) \/ LogWriteNlFail(w)
    \/ Apply(w) \/ Get(w) \/ Respond(w) \/ RespondFail(w)

ClientStep(w) ==
    \/ Connect(w) \/ ClientSend(w)

RecoveryStep ==
    \/ Bind \/ BindFail \/ Replay \/ ReplayIoFail
    \/ CompactCreate \/ CompactWriteJson \/ CompactWriteNl \/ CompactSync
    \/ CompactRename \/ CompactFail

ServeStep ==
    \/ InstallHandler \/ InstallHandlerFail
    \/ AcceptCheck \/ AcceptWouldBlock \/ AcceptError
    \/ JoinWorker \/ FinalLock \/ Exit

Next ==
    \/ RecoveryStep
    \/ ServeStep
    \/ \E w \in Workers : Accept(w)
    \/ \E w \in Workers : WorkerStep(w)
    \/ \E w \in Workers : ClientStep(w)
    \/ SetShutdown

Spec == Init /\ [][Next]_vars

\* --------------------------------------- the recovery on any log on disk
InitLineKinds ==
    { Serialize(SetCmd("a", "x")), Serialize(SetCmd("a", "y")),
      Serialize(SetCmd("b", "x")), Serialize(DeleteCmd("a")),
      Serialize(GetCmd("a")),
      <<>>, <<Garbage>>, <<"{", "SET", "a">>,
      Serialize(SetCmd("a", "x")) \o Serialize(DeleteCmd("b")),
      <<BadUtf8>> }

RECURSIVE JoinLines(_, _)
JoinLines(ls, lastTerminated) ==
    IF ls = <<>> THEN <<>>
    ELSE IF Len(ls) = 1 THEN (IF lastTerminated THEN Append(ls[1], LF) ELSE ls[1])
    ELSE Append(ls[1], LF) \o JoinLines(Tail(ls), lastTerminated)

InitLogs ==
    { JoinLines(ls, t) :
        ls \in UNION {[1..n -> InitLineKinds] : n \in 0..MaxInitLines},
        t \in BOOLEAN }

InitRecovery ==
    /\ \/ log = <<>> /\ logExists = FALSE
       \/ log \in InitLogs /\ logExists = TRUE
    /\ tmp = <<>> /\ tmpExists = FALSE
    /\ FreshProcess
    /\ NoHistory

RecoverySpec == InitRecovery /\ [][RecoveryStep \/ Restart]_vars

\* ------------------------------------------------ fair scheduling (liveness)
\* the steps main() takes by itself; the failures of its calls are left out
MainProgress ==
    \/ Bind \/ Replay
    \/ CompactCreate \/ CompactWriteJson \/ CompactWriteNl \/ CompactSync \/ CompactRename
    \/ InstallHandler \/ AcceptCheck \/ AcceptWouldBlock
    \/ (\E w \in Workers : Accept(w))
    \/ JoinWorker \/ FinalLock \/ Exit

\* the steps a worker thread takes by itself, the 1 s read timeout included:
\* the timeout fires only if read() waits all along, and bytes that arrive
\* (ClientSend) end the wait, so weak fairness is what the socket gives
WorkerProgress(w) ==
    \/ Setup(w) \/ CheckShutdown(w)
    \/ ReadPartial(w) \/ ReadLine(w) \/ ReadTimeout(w)
    \/ LogWriteJson(w) \/ LogWriteNl(w)
    \/ Apply(w) \/ Get(w) \/ Respond(w)

Fairness ==
    /\ WF_vars(MainProgress)
    /\ \A w \in Workers : WF_vars(WorkerProgress(w))

LiveSpec == Init /\ [][Next]_vars /\ Fairness

\* ============================================================ properties
\* the entry of command c is in the file, followed by a newline
EntryInLog(c) ==
    LET json == Serialize(c) IN
    \E i \in 1..Len(log) :
        /\ i + Len(json) - 1 <= Len(log)
        /\ SubSeq(log, i, i + Len(json) - 1) = json
        /\ \E j \in (i + Len(json))..Len(log) : log[j] = LF

\* C1: for every SET or DELETE a worker handles, write_to_log has returned Ok
\* (the entry and its newline are in the log) before the Store is changed, and
\* the Store has been changed before the response is sent.
C1_LogThenStoreThenResponse ==
    \A w \in Workers :
        /\ wpc[w] = "apply" =>
             stage[w] = <<"log">> /\ EntryInLog(wcmd[w])
        /\ (wpc[w] = "respond" /\ Mutating(wcmd[w])) =>
             stage[w] = <<"log", "apply">> /\ EntryInLog(wcmd[w])
        /\ (stage[w] # <<>> /\ Mutating(wcmd[w])) => stage[w][1] = "log"

\* a worker is about to answer OK to a SET it has logged and applied
C1_Witness ==
    \E w \in Workers :
        /\ wpc[w] = "respond" /\ wcmd[w].op = "SET" /\ wresp[w] = "OK"
        /\ store[wcmd[w].key] = wcmd[w].value

\* C4: when write_to_log fails for a worker's SET or DELETE, that step leaves
\* the Store and the other workers as they were, sends no response, and the
\* worker ends with the error (and stays ended).
C4_FailedAppendAbortsCommand ==
    [][\A w \in Workers :
          /\ ( /\ wpc[w] \in {"log_json", "log_nl"}
               /\ wpc'[w] # wpc[w]
               /\ ~(wpc[w] = "log_json" /\ wpc'[w] = "log_nl")
               /\ ~(wpc[w] = "log_nl" /\ wpc'[w] = "apply" /\ stage'[w] = <<"log">>) )
             => /\ wpc'[w] = "Failed"
                /\ store' = store
                /\ \A v \in Workers \ {w} :
                     wpc'[v] = wpc[v] /\ wcmd'[v] = wcmd[v] /\ wresp'[v] = wresp[v]
          /\ wpc[w] = "Failed" => wpc'[w] = "Failed"
      ]_vars

\* a worker has ended on a torn entry while the Store holds another worker's SET
C4_Witness ==
    \E w \in Workers :
        /\ wpc[w] = "Failed"
        /\ log # <<>> /\ log[Len(log)] \notin {"}", LF}
        /\ store # EmptyMap

\* C9: when main returns after a clean shutdown, replaying kvstore.log gives
\* exactly the Store as the workers left it.
C9_LogIsStoreAtExit ==
    mainPc = "done" =>
        ReplayLog(logExists, log) = [ok |-> TRUE, map |-> store]

\* main has returned with both keys set by the workers
C9_Witness ==
    /\ mainPc = "done"
    /\ store["a"] # Absent /\ store["b"] # Absent

\* C10: compact_log is started once at startup and once at shutdown, the
\* second time only after every spawned worker has ended and been joined;
\* no worker appends to the log or changes the Store after that.
C10_OneFinalCompactionAfterJoin ==
    /\ compactions <= 2
    /\ mainPc \in {"accept_check", "accept", "join"} => compactions = 1
    /\ mainPc = "done" => compactions = 2
    /\ (compactions = 2 \/ (mainPc = "c_create" /\ compactions = 1)) =>
          /\ handles = <<>>
          /\ \A w \in Workers : wpc[w] \in Terminal \cup {"idle", "pending"}

\* main has returned after joining two workers that had served commands
C10_Witness ==
    /\ mainPc = "done"
    /\ \A w \in Workers : wpc[w] \in Terminal
    /\ nmut = MaxMutations

\* C2: once a SET or DELETE of key k has been answered OK, the Store that
\* replay_log rebuilds from the disk of any later state (the process killed
\* there) has that command's effect on k, unless an entry for k was logged
\* after it.
C2_AckedSurvivesCrash ==
    \A k \in Keys :
        acked[k] =>
            LET r == ReplayLog(logExists, log) IN
            r.ok /\ r.map[k] = lastLogged[k].eff

\* C3: when write_to_log has returned Ok to a worker (and no write has failed
\* in any worker), the command it appended is a line of kvstore.log by itself.
C3_AppendedLinesAreWhole ==
    (\A v \in Workers : wpc[v] # "Failed") =>
        \A w \in Workers :
            wpc[w] = "apply" =>
                \E i \in 1..Len(Lines(log)) : Lines(log)[i] = Serialize(wcmd[w])

\* the lines of a compacted log: one SET entry for each key of the map
OneSetPerKey(f, map) ==
    /\ Len(Lines(f)) = Cardinality(LiveKeys(map))
    /\ \A k \in LiveKeys(map) :
         \E i \in 1..Len(Lines(f)) : Lines(f)[i] = Serialize(SetCmd(k, map[k]))

\* C5: after compact_log(S) has succeeded, the log holds exactly one SET entry
\* per key of S and nothing else, replay_log of it returns S, and S is also
\* what the log replayed to before the compaction (so a second compaction of
\* the restarted process replays to the same Store as the first).
C5_CompactionEquivalence ==
    mainPc = "compacted" =>
        /\ OneSetPerKey(log, cmap)
        /\ ReplayLog(logExists, log) = [ok |-> TRUE, map |-> cmap]
        /\ ReplayLines(Lines(origLog), EmptyMap) = [ok |-> TRUE, map |-> cmap]

\* the restarted process has compacted a two-key log that was itself the
\* output of compact_log, the keys written in the other order
C5_Witness ==
    /\ mainPc = "compacted" /\ crashes = 1
    /\ Cardinality(LiveKeys(cmap)) = 2
    /\ OneSetPerKey(origLog, cmap)
    /\ origLog # log

\* C6: at every step of compact_log (no write having failed in any worker),
\* kvstore.log is the whole original log until the rename and the whole new
\* log after it, and replaying it gives the map that is being compacted.
C6_CompactionCrashAtomic ==
    ( /\ mainPc \in {"c_write", "c_nl", "c_rename", "compacted"}
      /\ \A w \in Workers : wpc[w] # "Failed" ) =>
        /\ mainPc # "compacted" => log = origLog
        /\ mainPc = "compacted" => OneSetPerKey(log, cmap)
        /\ ReplayLog(logExists, log) = [ok |-> TRUE, map |-> cmap]

\* the lines of f that deserialize to a Command
ParseableLines(f) ==
    SelectSeq(Lines(f), LAMBDA line : ValidUtf8(line) /\ Deserialize(line).op # "ERR")

\* C7: on any log, replay_log does not fail and returns what it returns on
\* the log with the unparseable lines removed; a missing log gives the empty map.
C7_ReplayToleratesCorruptLines ==
    mainPc = "replay" =>
        LET r == ReplayLog(logExists, log) IN
        /\ r.ok
        /\ r.map = ReplayLog(TRUE, JoinLines(ParseableLines(log), TRUE)).map
        /\ ~logExists => r.map = EmptyMap

\* C8: once the shutdown flag is set, under fair scheduling main returns (or
\* has panicked), whatever the clients do.
C8_ShutdownDrains ==
    shutdown ~> (mainPc \in {"done"} \cup Aborted)

\* C11: a connection made after the shutdown flag was set is left in the
\* listener's queue or, once accepted, its thread ends at the first flag check:
\* nothing is read from it, no command is dispatched, and the steps taken for
\* it change neither the log nor the Store and send no response.
C11_LateConnectionNeverServed ==
    [][\A w \in Workers :
          /\ w \in late =>
               /\ wpc[w] \in {"pending", "spawned", "check"}
               /\ wcmd[w] = NoCmd /\ wresp[w] = NoText /\ stage[w] = <<>>
               /\ wpc'[w] # wpc[w] =>
                    /\ wpc'[w] \in {"spawned", "check", "ClosedByShutdown", "Failed"}
                    /\ wcmd'[w] = NoCmd /\ wresp'[w] = NoText
                    /\ log' = log /\ store' = store
          /\ (shutdown /\ wpc[w] = "idle" /\ wpc'[w] # "idle") => w \in late'
          /\ wpc[w] \in Terminal => wpc'[w] = wpc[w]
          /\ shutdown => shutdown'
      ]_vars

\* a connection made after the flag was set has been accepted (the accept call
\* was past the flag check) and its thread is at the head of its loop
C11_Witness ==
    \E w \in Workers : w \in late /\ wpc[w] = "check" /\ shutdown

\* the accept loop is running or the workers are being joined
Serving == mainPc \in {"accept_check", "accept", "join"}

\* how many entries for key k, whole or torn, have been appended to file f
Mentions(f, k) ==
    Cardinality({i \in 1..Len(f) : f[i] = "{" /\ i + 2 <= Len(f) /\ f[i + 2] = k})

\* C12: while serving, a key for which exactly one SET was issued and has been
\* acknowledged holds that SET's value in the Store, whatever the other
\* workers did to other keys at the same time, and a key no command was
\* issued for is still absent.
C12_NoLostUpdates ==
    Serving =>
        \A k \in Keys :
            /\ Mentions(log, k) = 0 => store[k] = Absent
            /\ (Mentions(log, k) = 1 /\ acked[k]) => store[k] = lastLogged[k].eff

\* two workers have each had one SET of a key of their own acknowledged, their
\* appends having overlapped (the two entries share a line of the log)
C12_Witness ==
    /\ Serving
    /\ \A k \in Keys : Mentions(log, k) = 1 /\ acked[k] /\ store[k] # Absent
    /\ lastLogged["a"].by # lastLogged["b"].by
    /\ Len(Lines(log)) = 2 /\ Lines(log)[2] = <<>>

\* C13: a GET line, an empty line, a line of wrong arity and a line with an
\* unknown verb are never logged or applied; every step of their handling
\* leaves the log and the Store as they were; one response is written and the
\* worker is back at the head of its loop (unless the write to the socket
\* fails, which ends the worker).
C13_NonMutatingLinesChangeNothing ==
    [][\A w \in Workers :
          /\ wpc[w] \in {"log_json", "log_nl", "apply"} => Mutating(wcmd[w])
          /\ (wpc[w] = "readable" /\ wpc'[w] \notin {"readable", "read"}
                /\ ~Mutating(wcmd'[w])) =>
               /\ wcmd'[w].op \in {"GET", "ERR"}
               /\ wpc'[w] = (IF wcmd'[w].op = "GET" THEN "get" ELSE "respond")
               /\ log' = log /\ store' = store
          /\ (wpc[w] = "get" /\ wpc'[w] # "get") =>
               /\ wpc'[w] = "respond" /\ wresp'[w] # NoText
               /\ log' = log /\ store' = store
          /\ (wpc[w] = "respond" /\ ~Mutating(wcmd[w]) /\ wpc'[w] # "respond") =>
               /\ wresp[w] # NoText
               /\ wpc'[w] \in {"check", "Failed"}
               /\ log' = log /\ store' = store
      ]_vars

\* one worker is about to answer a GET with the value of a key, another is
\* about to answer a line that is no command, and the log is not empty
C13_Witness ==
    /\ \E w \in Workers :
         /\ wpc[w] = "respond" /\ wcmd[w].op = "GET"
         /\ wresp[w] # "(nil)" /\ wresp[w] = store[wcmd[w].key]
    /\ \E v \in Workers : wpc[v] = "respond" /\ wcmd[v].op = "ERR"
    /\ log # <<>>

\* C14: GET k answers the value the Store holds for k when the lock is taken,
\* or (nil) when it holds none; DELETE k answers OK exactly when k was in the
\* Store at the removal, (nil) otherwise, and leaves k absent; a key that is
\* absent becomes present only by a worker's SET of that key (so a GET k after
\* the same connection's DELETE k answers (nil) unless a SET k came between);
\* the response computed is the one written.
C14_ResponseSemantics ==
    [][\A w \in Workers :
          LET k == wcmd[w].key IN
          /\ (wpc[w] = "get" /\ wpc'[w] = "respond") =>
               wresp'[w] = (IF store[k] = Absent THEN "(nil)" ELSE store[k])
          /\ (wpc[w] = "apply" /\ wcmd[w].op = "DELETE" /\ wpc'[w] = "respond") =>
               /\ wresp'[w] \in {"OK", "(nil)"}
               /\ wresp'[w] = "OK" <=> store[k] # Absent
               /\ store'[k] = Absent
          /\ (wpc[w] = "respond" /\ wpc'[w] = "respond") => wresp'[w] = wresp[w]
          /\ \A j \in Keys :
               (store[j] = Absent /\ store'[j] # Absent) =>
                   \E v \in Workers :
                       /\ wpc[v] = "apply" /\ wpc'[v] = "respond"
                       /\ wcmd[v].op = "SET" /\ wcmd[v].key = j
      ]_vars

\* a worker whose DELETE of a present key was answered OK is about to answer
\* (nil) to its GET of the same key
C14_Witness ==
    \E w \in Workers :
        /\ wpc[w] = "respond" /\ wcmd[w].op = "GET" /\ wresp[w] = "(nil)"
        /\ lastLogged[wcmd[w].key] = [eff |-> Absent, by |-> w]
        /\ acked[wcmd[w].key]

\* C15: while serving, when no worker is between the append and the apply of
\* a command, no worker has failed, and every line of the log is one whole
\* SET entry (the workers have raced SET commands only), replaying
\* kvstore.log in file order gives exactly the Store.
C15_QuiescentLogIsStore ==
    ( /\ Serving
      /\ \A w \in Workers : wpc[w] \notin {"log_nl", "apply", "Failed"}
      /\ \A i \in 1..Len(Lines(log)) : Deserialize(Lines(log)[i]).op = "SET" ) =>
        ReplayLog(logExists, log) = [ok |-> TRUE, map |-> store]

\* C16: whoever holds the lock of the Store is not at a step that writes the
\* log, writes or renames the compaction file, or writes to a socket.
C16_NoIoUnderLock ==
    /\ lockedBy = "main" => mainPc \notin {"c_write", "c_nl", "c_rename"}
    /\ \A w \in Workers :
         lockedBy = w => wpc[w] \notin {"log_json", "log_nl", "respond"}

\* main has not reached its accept loop yet, or has aborted before it (the
\* flag can be set only once the loop runs)
StartingUp == ~shutdown /\ mainPc \notin {"accept_check", "accept"}

\* C17: until replay_log and the startup compact_log have returned, no
\* connection is accepted, no worker is spawned and no command is dispatched
\* (connections wait in the listener's queue); whenever a connection has been
\* accepted or the accept loop runs, the startup compaction has been done and
\* has left a log file; a start that aborts has served no connection.
C17_RecoveryBeforeServing ==
    /\ StartingUp =>
         /\ handles = <<>> /\ nmut = 0
         /\ \A w \in Workers : wpc[w] \in {"idle", "pending"} /\ wcmd[w] = NoCmd
    /\ (Serving \/ mainPc = "accept" \/ \E w \in Workers : wpc[w] \notin {"idle", "pending"}) =>
         compactions >= 1 /\ logExists
    /\ (compactions = 0 \/ mainPc \in {"abort_bind", "abort_replay", "abort_handler"}) =>
         StartingUp

\* a connection waits in the queue while the startup compaction is at its rename
C17_Witness ==
    /\ mainPc = "c_rename" /\ compactions = 1 /\ ~shutdown
    /\ \E w \in Workers : wpc[w] = "pending"

\* C18: in a step taken with the shutdown flag set, no connection leaves the
\* listener's queue, no thread is spawned and no handle is pushed.
C18_NoAcceptAfterFlag ==
    [][shutdown =>
          /\ Len(handles') <= Len(handles)
          /\ \A w \in Workers :
               /\ wpc[w] = "pending" => wpc'[w] = "pending"
               /\ wpc'[w] = "spawned" => wpc[w] = "spawned"
      ]_vars

\* C19: when write_to_log returns an error to a worker's SET of a key that no
\* other entry of the log mentions, the key is absent from the running Store
\* and absent from the Store replay_log rebuilds from the file as that step
\* leaves it.
C19_FailedAppendLeavesNoEffect ==
    [][\A w \in Workers :
          LET k == wcmd[w].key IN
          ( /\ wpc[w] \in {"log_json", "log_nl"} /\ wpc'[w] = "Failed"
            /\ wcmd[w].op = "SET"
            /\ Mentions(log, k) = (IF wpc[w] = "log_nl" THEN 1 ELSE 0) ) =>
              /\ store'[k] = Absent
              /\ ReplayLog(logExists', log').map[k] = Absent
      ]_vars

\* C20: a read timeout loses no input.  The bytes of an unfinished line that
\* read_line has taken from the socket survive the timeout and the return to
\* the head of the loop (flag false), so that the line dispatched afterwards
\* still starts with them and they are never left out or parsed apart.
C20_TimeoutKeepsInput ==
    [][\A w \in Workers :
          /\ (wpc[w] = "read" /\ wpc'[w] = "check") => wbuf'[w] = wbuf[w]
          /\ (wpc[w] = "check" /\ wpc'[w] = "read") => wbuf'[w] = wbuf[w]]_vars

====
